---- MODULE Spec2Model ----
(***************************************************************************)
(* A model of statsdbinterface/database/extmodels.py: the read-only        *)
(* reporting layer (Player, Server, Map, Mode, Mutator, Weapon) over the   *)
(* match-history tables games, game_players, game_servers, game_weapons.   *)
(*                                                                         *)
(* The tables are the state.  A table is the sequence of its rows in       *)
(* rowid order, which is the order a query without ORDER BY returns.  The  *)
(* rows are written by the game server: a game gets the next identifier,   *)
(* then its player, server and weapon rows follow, so every table is in    *)
(* ascending game-id order.  Games can be deleted afterwards, which leaves *)
(* the rows that reference them behind.  The requests of the reporting     *)
(* layer read the tables and leave their outcome in resp.                  *)
(*                                                                         *)
(* SQL NULL / Python None is the empty sequence <<>>, a value v that may   *)
(* be NULL is <<v>>.  A Python float is an exact fraction <<num, den>>.    *)
(* A raised exception is [ok |-> FALSE, err |-> name].                     *)
(***************************************************************************)
EXTENDS Integers, Sequences, FiniteSets, TLC

VARIABLES games, players, servers, weapons, nextId, resp

vars == <<games, players, servers, weapons, nextId, resp>>

(***************************************************************************)
(* Bounds of the model.                                                    *)
(***************************************************************************)
\* Rows inserted over a run, all tables together (Spec, SpecRatio, SpecSums).
MaxRows == 4

\* Games recorded over a run (SpecFpm, SpecWindow, SpecRaces).
MaxStatGames == 3

(***************************************************************************)
(* Python and SQL primitives.                                              *)
(***************************************************************************)
Range(s) == {s[i] : i \in DOMAIN s}

Max(a, b) == IF a >= b THEN a ELSE b

Min(a, b) == IF a <= b THEN a ELSE b

\* list(reversed(s))
Reversed(s) == [i \in 1..Len(s) |-> s[Len(s) + 1 - i]]

\* One bound of a Python slice over a list of length n: a negative index counts
\* from the end, and the result is clamped into 0..n.
SliceIndex(i, n) == IF i < 0 THEN Max(i + n, 0) ELSE Min(i, n)

\* s[a:b] (0-based, b exclusive); never raises.
PySlice(s, a, b) ==
    LET lo == SliceIndex(a, Len(s))
        hi == SliceIndex(b, Len(s))
    IN  IF lo >= hi THEN <<>> ELSE SubSeq(s, lo + 1, hi)

\* s[i] for a Python list (0-based, negative from the end): <<>> stands for the
\* IndexError, <<x>> for the element.
PyIndex(s, i) ==
    LET k == IF i < 0 THEN i + Len(s) ELSE i
    IN  IF k < 0 \/ k >= Len(s) THEN <<>> ELSE <<s[k + 1]>>

\* [f(r) for r in rows]
MapSeq(rows, f(_)) == [i \in 1..Len(rows) |-> f(rows[i])]

RECURSIVE SumSeq(_)
SumSeq(s) == IF s = <<>> THEN 0 ELSE Head(s) + SumSeq(Tail(s))

\* db.func.sum over a column of the selected rows: NULL when there is no row.
SqlSum(column) == IF column = <<>> THEN <<>> ELSE <<SumSeq(column)>>

\* Python's `x or 0` for x an integer or None.
OrZero(x) == IF x = <<>> THEN 0 ELSE x[1]

\* query.first(): the first row, or None.
First(rows) == IF rows = <<>> THEN <<>> ELSE <<rows[1]>>

\* All orders of the elements of a finite set.
Perms(S) ==
    {p \in [1..Cardinality(S) -> S] : \A i, j \in DOMAIN p : i # j => p[i] # p[j]}

Raise(e) == [ok |-> FALSE, err |-> e]

Return(v) == [ok |-> TRUE, val |-> v]

(***************************************************************************)
(* SELECT key ... GROUP BY key ORDER BY <bare column> DESC, given the key   *)
(* and the ordering column of the selected rows.  The result has one row   *)
(* per distinct key.  The bare ordering column of a group is   *)
(* taken from a row of the group the engine chooses, and rows that tie are *)
(* in an order the engine chooses: the possible results are the orders of  *)
(* the keys that some choice of one row per group sorts descending.        *)
(***************************************************************************)
GroupByOrderDesc(keys, ords) ==
    LET groups == Range(keys)
        ordsOf(k) == {ords[i] : i \in {j \in DOMAIN keys : keys[j] = k}}
    IN  {p \in Perms(groups) :
            \E rep \in [groups -> Range(ords)] :
                /\ \A k \in groups : rep[k] \in ordsOf(k)
                /\ \A i, j \in DOMAIN p : i < j => rep[p[i]] >= rep[p[j]]}

\* A count of the selected rows instead of the groups.
GroupByCount_Rows(keys) == Len(keys)

\* query.group_by(key).count(): the number of groups.
GroupByCount(keys) == Cardinality(Range(keys))

(***************************************************************************)
(* The ruleset catalogue, redeclipse.versions.default: the mode names in   *)
(* index order, the display names, the base mutators, and the mutators     *)
(* that exist in one mode only.                                            *)
(***************************************************************************)
re_modes == <<"demo", "edit", "dm", "ctf", "race">>

re_modestr == <<"Demo", "Editing", "Deathmatch", "Capture the Flag", "Race">>

re_basemuts == <<"ffa", "insta", "freestyle">>

\* re.gspmuts, keyed by the mode's place in re_modes.
re_gspmuts == [i \in {4, 5} |-> IF i = 4 THEN <<"quick">> ELSE <<"timed", "endurance">>]

\* Mutators that replace the weapon set.
re_weaponmuts == {"insta"}

re_weaponlist == <<"sword", "rifle">>

\* Weapon.columns
Weapon_columns ==
    <<"timewielded", "timeloadout",
      "damage1", "frags1", "hits1", "flakhits1", "shots1", "flakshots1",
      "damage2", "frags2", "hits2", "flakhits2", "shots2", "flakshots2">>

(***************************************************************************)
(* The rows of the four tables.                                            *)
(***************************************************************************)
GameRow(id, map, mode, muts, timeplayed, time) ==
    [id |-> id, map |-> map, mode |-> mode, muts |-> muts,
     timeplayed |-> timeplayed, time |-> time]

PlayerRow(game_id, handle, name, frags, deaths, score, timealive, timeactive) ==
    [game_id |-> game_id, handle |-> handle, name |-> name, frags |-> frags,
     deaths |-> deaths, score |-> score, timealive |-> timealive,
     timeactive |-> timeactive]

ServerRow(game_id, handle) == [game_id |-> game_id, handle |-> handle]

\* cols: the fourteen counters of Weapon_columns, by name.
WeaponRow(game_id, weapon, playerhandle, cols) ==
    [game_id |-> game_id, weapon |-> weapon, playerhandle |-> playerhandle,
     cols |-> cols]

\* [r[0] for r in Game.query.with_entities(Game.id).all()]
AllGameIds == MapSeq(games, LAMBDA g : g.id)

GameExists(id) == \E g \in Range(games) : g.id = id

GameOf(id) == CHOOSE g \in Range(games) : g.id = id

(***************************************************************************)
(* The filter predicates the storage layer offers inside queries.  A game  *)
(* that is not in the games table matches none of them.                    *)
(***************************************************************************)
re_mode(game_id, mode) == GameExists(game_id) /\ GameOf(game_id).mode = mode

re_mut(game_id, mut) == GameExists(game_id) /\ mut \in GameOf(game_id).muts

re_normal_weapons(game_id) ==
    GameExists(game_id) /\ GameOf(game_id).muts \cap re_weaponmuts = {}

(***************************************************************************)
(* class Player                                                            *)
(***************************************************************************)
\* The lists Player.handle_list() can return.
Player_handle_list ==
    GroupByOrderDesc(MapSeq(SelectSeq(players, LAMBDA r : r.handle # ""),
                     LAMBDA r : r.handle),
                     MapSeq(SelectSeq(players, LAMBDA r : r.handle # ""), LAMBDA r : r.game_id))

Player_count ==
    GroupByCount(MapSeq(SelectSeq(players, LAMBDA r : r.handle # ""), LAMBDA r : r.handle))

\* Player.__init__ without the `if r[0] in all_games` filter.
Player_game_ids_Unfiltered(handle) ==
    MapSeq(SelectSeq(players, LAMBDA r : r.handle = handle), LAMBDA r : r.game_id)

\* The handle's game ids in table order, without the games that are gone.
Player_game_ids(handle) ==
    LET all_games == AllGameIds
        rows == SelectSeq(players, LAMBDA r : r.handle = handle)
    IN  MapSeq(SelectSeq(rows, LAMBDA r : r.game_id \in Range(all_games)),
               LAMBDA r : r.game_id)

\* Player(handle)
Player_init(handle) ==
    LET game_ids == Player_game_ids(handle)
        last == PyIndex(game_ids, -1)
        head == PyIndex(game_ids, 0)
    IN  IF last = <<>> \/ head = <<>>
        THEN Raise("IndexError")
        ELSE Return([handle |-> handle,
                     game_ids |-> game_ids,
                     latest |-> First(SelectSeq(players, LAMBDA r :
                                   r.game_id = last[1] /\ r.handle = handle)),
                     first |-> First(SelectSeq(players, LAMBDA r :
                                   r.game_id = head[1] /\ r.handle = handle))])

\* [K(name) for name in names], given what each K(name) gives: the views, or the
\* first exception raised.
BuildAll(built) ==
    LET failed == {i \in DOMAIN built : ~built[i].ok}
    IN  IF failed # {}
        THEN built[CHOOSE i \in failed : \A j \in failed : i <= j]
        ELSE Return(MapSeq(built, LAMBDA v : v.val))

\* names[page * pagesize:page * pagesize + pagesize] when pagesize is not None.
PageOf(names, page, pagesize) ==
    IF pagesize # <<>>
    THEN PySlice(names, page * pagesize[1], page * pagesize[1] + pagesize[1])
    ELSE names

\* Player.get_or_404 looking the handle up in the table instead of the listing.
Player_get_or_404_AnyRow(handles, handle) ==
    IF \E r \in Range(players) : r.handle = handle
    THEN Player_init(handle) ELSE Raise("NotFound")

\* Player.get_or_404(handle), handles being what handle_list() returned.
Player_get_or_404(handles, handle) ==
    IF handle \in Range(handles) THEN Player_init(handle) ELSE Raise("NotFound")

\* Player.all(page, pagesize), handles being what handle_list() returned.
Player_all(handles, page, pagesize) ==
    BuildAll(MapSeq(PageOf(handles, page, pagesize), Player_init))

(***************************************************************************)
(* Player statistics.  self is the view Player(handle) built.  The         *)
(* @cached decorator belongs to the cache layer; what is modelled is the   *)
(* computation it wraps.                                                   *)
(***************************************************************************)
\* A Python number as a fraction.
Frac(n) == <<n, 1>>

\* a / b on Python numbers: true division, ZeroDivisionError for b = 0.
PyDiv(a, b) ==
    IF b[1] = 0 THEN Raise("ZeroDivisionError")
    ELSE IF b[1] < 0 THEN Return(<<(0 - a[1]) * b[2], (0 - b[1]) * a[2]>>)
    ELSE Return(<<a[1] * b[2], a[2] * b[1]>>)

\* last_games taking the first `number` ids instead of the last.
Player_last_games_Oldest(self, number) ==
    IF number = 0
    THEN Reversed(self.game_ids)
    ELSE Reversed(PySlice(self.game_ids, 0, number))

\* Player.last_games(number)
Player_last_games(self, number) ==
    IF number = 0
    THEN Reversed(self.game_ids)
    ELSE PySlice(Reversed(self.game_ids), 0, number)

\* The handle's game_players rows in the window that pass the normal-weapons
\* filter.
Player_stat_rows(self, window) ==
    SelectSeq(SelectSeq(SelectSeq(players,
        LAMBDA r : r.game_id \in Range(window)),
        LAMBDA r : re_normal_weapons(r.game_id)),
        LAMBDA r : r.handle = self.handle)

\* The handle's game_weapons rows in the window that pass the normal-weapons
\* filter.
Player_weapon_rows(self, window) ==
    SelectSeq(SelectSeq(SelectSeq(weapons,
        LAMBDA r : r.game_id \in Range(window)),
        LAMBDA r : re_normal_weapons(r.game_id)),
        LAMBDA r : r.playerhandle = self.handle)

\* Player.dpm(games_ago)
Player_dpm(self, games_ago) ==
    LET window == Player_last_games(self, games_ago)
        d1 == SqlSum(MapSeq(Player_weapon_rows(self, window), LAMBDA r : r.cols["damage1"]))
        d2 == SqlSum(MapSeq(Player_weapon_rows(self, window), LAMBDA r : r.cols["damage2"]))
        time == SqlSum(MapSeq(Player_stat_rows(self, window), LAMBDA r : r.timealive))
        minutes == PyDiv(Frac(Max(1, OrZero(time))), Frac(60))
    IN  IF ~minutes.ok THEN minutes
        ELSE PyDiv(Frac(OrZero(d1) + OrZero(d2)), minutes.val)

\* fpm summing over the rows of every handle.
Player_fpm_AnyHandle(self, games_ago) ==
    LET window == Player_last_games(self, games_ago)
        rows == SelectSeq(SelectSeq(players,
                    LAMBDA r : r.game_id \in Range(window)),
                    LAMBDA r : re_normal_weapons(r.game_id))
        time == SqlSum(MapSeq(rows, LAMBDA r : r.timealive))
        frags == SqlSum(MapSeq(rows, LAMBDA r : r.frags))
        minutes == PyDiv(Frac(Max(1, OrZero(time))), Frac(60))
    IN  IF ~minutes.ok THEN minutes
        ELSE PyDiv(Frac(OrZero(frags)), minutes.val)

\* Player.fpm(games_ago)
Player_fpm(self, games_ago) ==
    LET window == Player_last_games(self, games_ago)
        time == SqlSum(MapSeq(Player_stat_rows(self, window), LAMBDA r : r.timealive))
        frags == SqlSum(MapSeq(Player_stat_rows(self, window), LAMBDA r : r.frags))
        minutes == PyDiv(Frac(Max(1, OrZero(time))), Frac(60))
    IN  IF ~minutes.ok THEN minutes
        ELSE PyDiv(Frac(OrZero(frags)), minutes.val)

\* kdr dividing by the sum of deaths as it is.
Player_kdr_NoFloor(self, games_ago) ==
    LET window == Player_last_games(self, games_ago)
        frags == SqlSum(MapSeq(Player_stat_rows(self, window), LAMBDA r : r.frags))
        deaths == SqlSum(MapSeq(Player_stat_rows(self, window), LAMBDA r : r.deaths))
    IN  PyDiv(Frac(OrZero(frags)), Frac(OrZero(deaths)))

\* Player.kdr(games_ago)
Player_kdr(self, games_ago) ==
    LET window == Player_last_games(self, games_ago)
        frags == SqlSum(MapSeq(Player_stat_rows(self, window), LAMBDA r : r.frags))
        deaths == SqlSum(MapSeq(Player_stat_rows(self, window), LAMBDA r : r.deaths))
    IN  PyDiv(Frac(OrZero(frags)), Frac(Max(1, OrZero(deaths))))

\* Player.dfr(games_ago)
Player_dfr(self, games_ago) ==
    LET window == Player_last_games(self, games_ago)
        d1 == SqlSum(MapSeq(Player_weapon_rows(self, window), LAMBDA r : r.cols["damage1"]))
        d2 == SqlSum(MapSeq(Player_weapon_rows(self, window), LAMBDA r : r.cols["damage2"]))
        frags == SqlSum(MapSeq(Player_stat_rows(self, window), LAMBDA r : r.frags))
    IN  PyDiv(Frac(OrZero(d1) + OrZero(d2)), Frac(Max(1, OrZero(frags))))

\* The strings of the model in the order Python compares them.
StringsInOrder == <<"", "abyss", "ace", "bath", "bob", "cargo">>

\* a < b on strings.
StrLess(a, b) ==
    \E i, j \in DOMAIN StringsInOrder :
        StringsInOrder[i] = a /\ StringsInOrder[j] = b /\ i < j

\* maps.count(map_)
ListCount(l, x) == Cardinality({i \in DOMAIN l : l[i] = x})

\* topmaps counting over all the view's games instead of the window.
Player_topmaps_AllGames(self, games_ago) ==
    LET maps == MapSeq(SelectSeq(games, LAMBDA g : g.id \in Range(self.game_ids)),
                       LAMBDA g : g.map)
        ret == [m \in Range(maps) |-> ListCount(maps, m)]
        order == CHOOSE p \in Perms(DOMAIN ret) :
                     \A i, j \in DOMAIN p : i < j =>
                         \/ ret[p[i]] > ret[p[j]]
                         \/ ret[p[i]] = ret[p[j]] /\ StrLess(p[i], p[j])
    IN  MapSeq(order, LAMBDA m : [name |-> m, games |-> ret[m]])

\* Player.topmaps(games_ago): the names sorted, then sorted again by count,
\* greatest first; the second sort is stable, so equal counts stay in name order.
Player_topmaps(self, games_ago) ==
    LET window == Player_last_games(self, games_ago)
        maps == MapSeq(SelectSeq(games, LAMBDA g : g.id \in Range(window)),
                       LAMBDA g : g.map)
        ret == [m \in Range(maps) |-> ListCount(maps, m)]
        order == CHOOSE p \in Perms(DOMAIN ret) :
                     \A i, j \in DOMAIN p : i < j =>
                         \/ ret[p[i]] > ret[p[j]]
                         \/ ret[p[i]] = ret[p[j]] /\ StrLess(p[i], p[j])
    IN  MapSeq(order, LAMBDA m : [name |-> m, games |-> ret[m]])

(***************************************************************************)
(* class Server                                                            *)
(***************************************************************************)
Server_handle_list ==
    GroupByOrderDesc(MapSeq(SelectSeq(servers, LAMBDA r : r.handle # ""),
                     LAMBDA r : r.handle),
                     MapSeq(SelectSeq(servers, LAMBDA r : r.handle # ""), LAMBDA r : r.game_id))

Server_count ==
    GroupByCount(MapSeq(SelectSeq(servers, LAMBDA r : r.handle # ""), LAMBDA r : r.handle))

Server_game_ids(handle) ==
    LET all_games == AllGameIds
        rows == SelectSeq(servers, LAMBDA r : r.handle = handle)
    IN  MapSeq(SelectSeq(rows, LAMBDA r : r.game_id \in Range(all_games)),
               LAMBDA r : r.game_id)

\* Server(handle); latest and first are looked up by game id alone.
Server_init(handle) ==
    LET game_ids == Server_game_ids(handle)
        last == PyIndex(game_ids, -1)
        head == PyIndex(game_ids, 0)
    IN  IF last = <<>> \/ head = <<>>
        THEN Raise("IndexError")
        ELSE Return([handle |-> handle,
                     game_ids |-> game_ids,
                     latest |-> First(SelectSeq(servers, LAMBDA r :
                                   r.game_id = last[1])),
                     first |-> First(SelectSeq(servers, LAMBDA r :
                                   r.game_id = head[1]))])

Server_get_or_404(handles, handle) ==
    IF handle \in Range(handles) THEN Server_init(handle) ELSE Raise("NotFound")

Server_all(handles, page, pagesize) ==
    BuildAll(MapSeq(PageOf(handles, page, pagesize), Server_init))

(***************************************************************************)
(* class Map                                                               *)
(***************************************************************************)
\* The lists Map.map_list(race) can return.
Map_map_list(race) ==
    IF race
    THEN GroupByOrderDesc(MapSeq(SelectSeq(SelectSeq(games, LAMBDA g : re_mode(g.id, "race")),
                       LAMBDA g : re_mut(g.id, "timed")),
             LAMBDA g : g.map),
                     MapSeq(SelectSeq(SelectSeq(games, LAMBDA g : re_mode(g.id, "race")),
                       LAMBDA g : re_mut(g.id, "timed")), LAMBDA g : g.id))
    ELSE GroupByOrderDesc(MapSeq(games, LAMBDA g : g.map),
                     MapSeq(games, LAMBDA g : g.id))

Map_count(race) ==
    IF race
    THEN GroupByCount(MapSeq(SelectSeq(SelectSeq(games, LAMBDA g : re_mode(g.id, "race")),
                       LAMBDA g : re_mut(g.id, "timed")),
             LAMBDA g : g.map))
    ELSE GroupByCount(MapSeq(games, LAMBDA g : g.map))

Map_game_ids(name) ==
    MapSeq(SelectSeq(games, LAMBDA g : g.map = name), LAMBDA g : g.id)

\* Map(name); gametime and playertime are the sums as the query returns them.
Map_init(name) ==
    LET game_ids == Map_game_ids(name)
        last == PyIndex(game_ids, -1)
        head == PyIndex(game_ids, 0)
    IN  IF last = <<>> \/ head = <<>>
        THEN Raise("IndexError")
        ELSE Return([name |-> name,
                     game_ids |-> game_ids,
                     latest |-> First(SelectSeq(games, LAMBDA g : g.id = last[1])),
                     first |-> First(SelectSeq(games, LAMBDA g : g.id = head[1])),
                     gametime |-> SqlSum(MapSeq(SelectSeq(games, LAMBDA g : g.map = name),
                                         LAMBDA g : g.timeplayed)),
                     playertime |-> SqlSum(MapSeq(SelectSeq(players, LAMBDA r :
                                               r.game_id \in Range(game_ids)),
                                           LAMBDA r : r.timeactive))])

\* Map.get_or_404(name), names being what map_list() returned.
Map_get_or_404(names, name) ==
    IF name \in Range(names) THEN Map_init(name) ELSE Raise("NotFound")

\* Map.all(page, pagesize, race), names being what map_list(race) returned.
Map_all(names, page, pagesize) ==
    BuildAll(MapSeq(PageOf(names, page, pagesize), Map_init))

\* to_pagination(page, per_page, lister, counter), given what lister(page,
\* per_page) and counter() give: the items of the page and the total, with
\* total_pages = ceil(total / per_page), at least 1.
to_pagination(page, per_page, items, total) ==
    IF ~items.ok THEN items
    ELSE Return([items |-> items.val, page |-> page, per_page |-> per_page,
                 total |-> total,
                 total_pages |-> Max(1, (total + per_page - 1) \div per_page)])

\* Map.paginate(page, per_page, race), names being what map_list(race) returned
\* inside the lister; the counter is lambda: cls.count(True).
Map_paginate(names, page, per_page, race) ==
    to_pagination(page, per_page, Map_all(names, page, <<per_page>>),
                  Map_count(TRUE))

\* current_app.config['API_HIGHSCORE_RESULTS'] as configured for the model.
API_HIGHSCORE_RESULTS == 2

\* GamePlayer joined with Game, narrowed by the filters of topraces: the rows, as
\* result rows, of this map's timed races without freestyle (with endurance when
\* asked for) that were completed.
Map_race_rows(self, endurance) ==
    LET joined == SelectSeq(players, LAMBDA r : GameExists(r.game_id))
        kept == SelectSeq(joined, LAMBDA r :
                    /\ r.game_id \in Range(self.game_ids)
                    /\ re_mode(r.game_id, "race")
                    /\ re_mut(r.game_id, "timed")
                    /\ (IF ~endurance THEN TRUE ELSE re_mut(r.game_id, "endurance"))
                    /\ ~re_mut(r.game_id, "freestyle")
                    /\ r.score > 0)
    IN  MapSeq(kept, LAMBDA r :
            [game_id |-> r.game_id, handle |-> r.handle, name |-> r.name,
             score |-> r.score, when |-> GameOf(r.game_id).time])

\* The group showing any of its rows.
Map_race_best_AnyRow(rows, handle) == {r \in Range(rows) : r.handle = handle}

\* The rows one handle's group can show: with min(score) in the query the bare
\* columns come from a row that holds the minimum.
Map_race_best(rows, handle) ==
    {r \in Range(rows) :
        /\ r.handle = handle
        /\ \A q \in Range(rows) : q.handle = handle => r.score <= q.score}

\* The results Map.topraces(endurance) can return: one row per handle, ordered
\* by score, cut at the configured length.  Rows with equal scores are in an
\* order the engine chooses.
Map_topraces(self, endurance) ==
    LET rows == Map_race_rows(self, endurance)
        \* HAVING min(score): the groups whose minimum is not 0.
        handles == {h \in {r.handle : r \in Range(rows)} :
                       \E r \in Map_race_best(rows, h) : r.score # 0}
        picks == {f \in [handles -> Range(rows)] :
                     \A h \in handles : f[h] \in Map_race_best(rows, h)}
    IN  {PySlice(MapSeq(p, LAMBDA h : f[h]), 0, API_HIGHSCORE_RESULTS) :
            <<f, p>> \in {fp \in picks \X Perms(handles) :
                \A i, j \in DOMAIN fp[2] :
                    i < j => fp[1][fp[2][i]].score <= fp[1][fp[2][j]].score}}

(***************************************************************************)
(* class Mode                                                              *)
(***************************************************************************)
Mode_mode_list == SelectSeq(re_modes, LAMBDA mode : mode \notin {"demo", "edit"})

Mode_count == Len(Mode_mode_list)

\* Mode(name); re.modes[name] is a KeyError for a name that is no mode.
Mode_init(name) ==
    IF name \notin Range(re_modes)
    THEN Raise("KeyError")
    ELSE Return([name |-> name,
                 longname |-> re_modestr[CHOOSE i \in DOMAIN re_modes :
                                             re_modes[i] = name],
                 game_ids |-> MapSeq(SelectSeq(games, LAMBDA g : re_mode(g.id, name)),
                                     LAMBDA g : g.id)])

Mode_get_or_404(name) ==
    IF name \in Range(Mode_mode_list) THEN Mode_init(name) ELSE Raise("NotFound")

Mode_all == BuildAll(MapSeq(Mode_mode_list, Mode_init))

(***************************************************************************)
(* class Mutator.  A mutator name is the sequence of its parts between     *)
(* dashes: "ffa" is <<"ffa">>, "race-timed" is <<"race", "timed">>.        *)
(***************************************************************************)
\* "%s-%s" % (mode, mut)
DashJoin(mode, mut) == <<mode, mut>>

RECURSIVE Mutator_gspmuts(_)
\* The mode-qualified names of the modes from place i on, in catalogue order.
Mutator_gspmuts(i) ==
    IF i > Len(re_modes) THEN <<>>
    ELSE (IF i \in DOMAIN re_gspmuts
          THEN MapSeq(re_gspmuts[i], LAMBDA mut : DashJoin(re_modes[i], mut))
          ELSE <<>>) \o Mutator_gspmuts(i + 1)

Mutator_mutator_list ==
    MapSeq(re_basemuts, LAMBDA mut : <<mut>>) \o Mutator_gspmuts(1)

Mutator_count == Len(Mutator_mutator_list)

\* Mutator(name): a name with a dash is <mode>-<mutator>.
Mutator_init(name) ==
    Return([name |-> name,
            game_ids |->
                IF Len(name) > 1
                THEN MapSeq(SelectSeq(SelectSeq(games, LAMBDA g : re_mut(g.id, name[2])),
                                      LAMBDA g : re_mode(g.id, name[1])),
                            LAMBDA g : g.id)
                ELSE MapSeq(SelectSeq(games, LAMBDA g : re_mut(g.id, name[1])),
                            LAMBDA g : g.id)])

Mutator_get_or_404(name) ==
    IF name \in Range(Mutator_mutator_list) THEN Mutator_init(name)
    ELSE Raise("NotFound")

Mutator_all == BuildAll(MapSeq(Mutator_mutator_list, Mutator_init))

(***************************************************************************)
(* class Weapon.  A query is the sequence of game_weapons rows it selects. *)
(***************************************************************************)
\* finish_query keeping the sums as the query returns them.
Weapon_finish_query_Raw(name, query) ==
    [name |-> name,
     attrs |-> [c \in Range(Weapon_columns) |-> SqlSum(MapSeq(query, LAMBDA r : r.cols[c]))]]

\* Weapon.finish_query(name, query): the name and the fourteen attributes, each
\* the sum of its column, 0 for a sum that is None.
Weapon_finish_query(name, query) ==
    [name |-> name,
     attrs |-> [c \in Range(Weapon_columns) |->
                   LET value == SqlSum(MapSeq(query, LAMBDA r : r.cols[c]))
                   IN  IF value # <<>> THEN value ELSE <<0>>]]

Weapon_from_player(weapon, player) ==
    Weapon_finish_query(weapon,
        SelectSeq(SelectSeq(weapons, LAMBDA r : r.weapon = weapon),
                  LAMBDA r : r.playerhandle = player))

Weapon_from_player_games(weapon, player, ids) ==
    Weapon_finish_query(weapon,
        SelectSeq(SelectSeq(SelectSeq(weapons, LAMBDA r : r.weapon = weapon),
                            LAMBDA r : r.playerhandle = player),
                  LAMBDA r : r.game_id \in Range(ids)))

Weapon_from_game(weapon, game) ==
    Weapon_finish_query(weapon,
        SelectSeq(SelectSeq(weapons, LAMBDA r : r.weapon = weapon),
                  LAMBDA r : r.game_id = game))

Weapon_from_games(weapon, ids) ==
    Weapon_finish_query(weapon,
        SelectSeq(SelectSeq(weapons, LAMBDA r : r.weapon = weapon),
                  LAMBDA r : r.game_id \in Range(ids)))

Weapon_from_game_player(weapon, game, player) ==
    Weapon_finish_query(weapon,
        SelectSeq(SelectSeq(SelectSeq(weapons, LAMBDA r : r.weapon = weapon),
                            LAMBDA r : r.game_id = game),
                  LAMBDA r : r.playerhandle = player))

Weapon_from_weapon(weapon) ==
    Weapon_finish_query(weapon, SelectSeq(weapons, LAMBDA r : r.weapon = weapon))

Weapon_get_or_404(name) ==
    IF name \in Range(re_weaponlist) THEN Return(Weapon_from_weapon(name))
    ELSE Raise("NotFound")

(***************************************************************************)
(* The entity kinds side by side.                                          *)
(***************************************************************************)
Kinds == {"Player", "Server", "Map", "Mode", "Mutator"}

\* The kinds whose all() takes a page and a page size.
PagedKinds == {"Player", "Server", "Map"}

\* What the kind's listing operation can return.
ListsOf(kind) ==
    CASE kind = "Player" -> Player_handle_list
      [] kind = "Server" -> Server_handle_list
      [] kind = "Map" -> Map_map_list(FALSE)
      [] kind = "Mode" -> {Mode_mode_list}
      [] kind = "Mutator" -> {Mutator_mutator_list}

CountOf(kind) ==
    CASE kind = "Player" -> Player_count
      [] kind = "Server" -> Server_count
      [] kind = "Map" -> Map_count(FALSE)
      [] kind = "Mode" -> Mode_count
      [] kind = "Mutator" -> Mutator_count

\* K.get_or_404(name), names being what the listing returned inside the call.
GetOr404Of(kind, names, name) ==
    CASE kind = "Player" -> Player_get_or_404(names, name)
      [] kind = "Server" -> Server_get_or_404(names, name)
      [] kind = "Map" -> Map_get_or_404(names, name)
      [] kind = "Mode" -> Mode_get_or_404(name)
      [] kind = "Mutator" -> Mutator_get_or_404(name)

\* K(name)
InitOf(kind, name) ==
    CASE kind = "Player" -> Player_init(name)
      [] kind = "Server" -> Server_init(name)
      [] kind = "Map" -> Map_init(name)
      [] kind = "Mode" -> Mode_init(name)
      [] kind = "Mutator" -> Mutator_init(name)

\* K.all(page, pagesize) of a paged kind.
AllOf(kind, names, page, pagesize) ==
    CASE kind = "Player" -> Player_all(names, page, pagesize)
      [] kind = "Server" -> Server_all(names, page, pagesize)
      [] kind = "Map" -> Map_all(names, page, pagesize)

(***************************************************************************)
(* The writers of the tables.                                              *)
(***************************************************************************)
NoResp == [op |-> "none"]

RowsInserted == (nextId - 1) + Len(players) + Len(servers) + Len(weapons)

\* The game being recorded: the last identifier handed out.
CurrentGame == nextId - 1

Init ==
    /\ games = <<>>
    /\ players = <<>>
    /\ servers = <<>>
    /\ weapons = <<>>
    /\ nextId = 1
    /\ resp = NoResp

InsertGame(map, mode, muts, timeplayed, time) ==
    /\ resp = NoResp
    /\ games' = Append(games, GameRow(nextId, map, mode, muts, timeplayed, time))
    /\ nextId' = nextId + 1
    /\ UNCHANGED <<players, servers, weapons, resp>>

\* One row per player per game; players without a handle are not told apart.
InsertPlayer(row) ==
    /\ resp = NoResp
    /\ GameExists(CurrentGame)
    /\ row.game_id = CurrentGame
    /\ row.handle # "" =>
           \A r \in Range(players) :
               ~(r.game_id = row.game_id /\ r.handle = row.handle)
    /\ players' = Append(players, row)
    /\ UNCHANGED <<games, servers, weapons, nextId, resp>>

\* One row per server per game.
InsertServer(handle) ==
    /\ resp = NoResp
    /\ GameExists(CurrentGame)
    /\ \A r \in Range(servers) : ~(r.game_id = CurrentGame /\ r.handle = handle)
    /\ servers' = Append(servers, ServerRow(CurrentGame, handle))
    /\ UNCHANGED <<games, players, weapons, nextId, resp>>

\* One row per player, weapon and game.
InsertWeapon(row) ==
    /\ resp = NoResp
    /\ GameExists(CurrentGame)
    /\ row.game_id = CurrentGame
    /\ \A r \in Range(weapons) :
           ~(r.game_id = row.game_id /\ r.weapon = row.weapon
             /\ r.playerhandle = row.playerhandle)
    /\ weapons' = Append(weapons, row)
    /\ UNCHANGED <<games, players, servers, nextId, resp>>

\* A game is removed; the rows that reference it stay.
DeleteGame(id) ==
    /\ resp = NoResp
    /\ GameExists(id)
    /\ games' = SelectSeq(games, LAMBDA g : g.id # id)
    /\ UNCHANGED <<players, servers, weapons, nextId, resp>>

(***************************************************************************)
(* The requests.  One request runs at a time, against the tables as they   *)
(* are when it starts; its views live until its response is handed to the  *)
(* caller, and the writers above wait for that.                            *)
(***************************************************************************)
Deliver ==
    /\ resp # NoResp
    /\ resp' = NoResp
    /\ UNCHANGED <<games, players, servers, weapons, nextId>>

\* K.get_or_404(name)
GetOr404(kind, name) ==
    /\ resp = NoResp
    /\ \E names \in ListsOf(kind) :
           resp' = [op |-> "get_or_404", kind |-> kind, name |-> name,
                    names |-> names, out |-> GetOr404Of(kind, names, name)]
    /\ UNCHANGED <<games, players, servers, weapons, nextId>>

\* K.all(page, pagesize) and, on the same tables, K.count()
All(kind, page, pagesize) ==
    /\ resp = NoResp
    /\ kind \in PagedKinds
    /\ \E names \in ListsOf(kind) :
           resp' = [op |-> "all", kind |-> kind, page |-> page,
                    pagesize |-> pagesize, names |-> names,
                    out |-> AllOf(kind, names, page, pagesize),
                    count |-> CountOf(kind)]
    /\ UNCHANGED <<games, players, servers, weapons, nextId>>

Ratios == {"dpm", "fpm", "kdr", "dfr"}

\* self.<stat>(games_ago)
StatOf(stat, self, games_ago) ==
    CASE stat = "dpm" -> Player_dpm(self, games_ago)
      [] stat = "fpm" -> Player_fpm(self, games_ago)
      [] stat = "kdr" -> Player_kdr(self, games_ago)
      [] stat = "dfr" -> Player_dfr(self, games_ago)
      [] stat = "last_games" -> Return(Player_last_games(self, games_ago))
      [] stat = "topmaps" -> Return(Player_topmaps(self, games_ago))

\* Player(handle).<stat>(games_ago), for a handle whose view can be built.
Stat(stat, handle, games_ago) ==
    /\ resp = NoResp
    /\ LET self == Player_init(handle)
       IN  /\ self.ok
           /\ resp' = [op |-> stat, handle |-> handle, games_ago |-> games_ago,
                       self |-> self.val,
                       out |-> StatOf(stat, self.val, games_ago)]
    /\ UNCHANGED <<games, players, servers, weapons, nextId>>

\* Map.get_or_404(name).topraces(endurance)
TopRaces(name, endurance) ==
    /\ resp = NoResp
    /\ \E names \in Map_map_list(FALSE) :
           LET self == Map_get_or_404(names, name)
           IN  /\ self.ok
               /\ \E out \in Map_topraces(self.val, endurance) :
                      resp' = [op |-> "topraces", name |-> name,
                               endurance |-> endurance, self |-> self.val,
                               out |-> Return(out)]
    /\ UNCHANGED <<games, players, servers, weapons, nextId>>

\* The selections a weapon summary is asked over.
WeaponScopes == {"player", "player_games", "game", "games", "game_player", "weapon"}

\* Weapon.from_<scope>(weapon, ...)
WeaponFrom(scope, weapon, player, game, ids) ==
    CASE scope = "player" -> Weapon_from_player(weapon, player)
      [] scope = "player_games" -> Weapon_from_player_games(weapon, player, ids)
      [] scope = "game" -> Weapon_from_game(weapon, game)
      [] scope = "games" -> Weapon_from_games(weapon, ids)
      [] scope = "game_player" -> Weapon_from_game_player(weapon, game, player)
      [] scope = "weapon" -> Weapon_from_weapon(weapon)

\* The game_weapons rows the scope selects.
WeaponScopeRows(scope, weapon, player, game, ids) ==
    {i \in DOMAIN weapons :
        /\ weapons[i].weapon = weapon
        /\ scope \in {"player", "player_games", "game_player"}
               => weapons[i].playerhandle = player
        /\ scope \in {"game", "game_player"} => weapons[i].game_id = game
        /\ scope \in {"player_games", "games"} => weapons[i].game_id \in Range(ids)}

\* A weapon summary is asked for.
WeaponSummary(scope, weapon, player, game, ids) ==
    /\ resp = NoResp
    /\ resp' = [op |-> "weapon", scope |-> scope, weapon |-> weapon,
                player |-> player, game |-> game, ids |-> ids,
                out |-> Return(WeaponFrom(scope, weapon, player, game, ids))]
    /\ UNCHANGED <<games, players, servers, weapons, nextId>>

(***************************************************************************)
(* Spec: the entity resolver over games, player rows and server rows.      *)
(***************************************************************************)
Maps == {"", "abyss"}

Handles == {"", "ace", "bob"}

ServerHandles == {"", "srv"}

\* A plain deathmatch and a timed race.
Rulesets == {[mode |-> "dm", muts |-> {}], [mode |-> "race", muts |-> {"timed"}]}

\* A player row that carries a handle and nothing else.
BarePlayer(game_id, handle) == PlayerRow(game_id, handle, handle, 0, 0, 0, 0, 0)

ResolveNames(kind) ==
    CASE kind = "Player" -> {"", "ace", "nobody"}
      [] kind = "Server" -> {"", "srv", "nobody"}
      [] kind = "Map" -> {"", "abyss", "nowhere"}
      [] kind = "Mode" -> {"race", "demo", "nomode"}
      [] kind = "Mutator" -> {<<"ffa">>, <<"race", "timed">>, <<"race", "quick">>}

Pages == {-1, 0, 1, 2}

PageSizes == {<<>>, <<1>>, <<2>>}

Next ==
    \/ /\ RowsInserted < MaxRows
       /\ \E map \in Maps, rs \in Rulesets : InsertGame(map, rs.mode, rs.muts, 0, 0)
    \/ /\ RowsInserted < MaxRows
       /\ \E handle \in Handles : InsertPlayer(BarePlayer(CurrentGame, handle))
    \/ /\ RowsInserted < MaxRows
       /\ \E handle \in ServerHandles : InsertServer(handle)
    \/ \E id \in 1..MaxRows : DeleteGame(id)
    \/ \E kind \in Kinds : \E name \in ResolveNames(kind) : GetOr404(kind, name)
    \/ \E kind \in PagedKinds, page \in Pages, pagesize \in PageSizes :
           All(kind, page, pagesize)
    \/ Deliver

Spec == Init /\ [][Next]_vars

(***************************************************************************)
(* Claims about the entity resolver, checked under Spec.                   *)
(***************************************************************************)
\* The empty string as a name of the kind.
EmptyName(kind) == IF kind = "Mutator" THEN <<"">> ELSE ""

NoDuplicates(l) == \A i, j \in DOMAIN l : i # j => l[i] # l[j]

\* The views a response carries: one for get_or_404, a sequence for all.
ViewsOf(r) ==
    IF ~r.out.ok THEN {}
    ELSE IF r.op = "get_or_404" THEN {r.out.val}
    ELSE Range(r.out.val)

\* C1: for every entity kind and database state, get_or_404(name) raises NotFound
\* exactly when name is not in the kind's listing; a name that is not listed never
\* yields a view.
C1_NotFoundIffNotListed ==
    resp.op = "get_or_404" =>
        \A names \in ListsOf(resp.kind) :
            /\ (~resp.out.ok /\ resp.out.err = "NotFound")
                   <=> resp.name \notin Range(names)
            /\ resp.name \notin Range(names) => ViewsOf(resp) = {}

\* The empty handle is asked for while rows of an existing game carry it and
\* other handles are listed, and the answer is NotFound.
C1_Witness ==
    /\ resp.op = "get_or_404"
    /\ resp.kind = "Player"
    /\ resp.name = ""
    /\ \E r \in Range(players) : r.handle = "" /\ GameExists(r.game_id)
    /\ resp.names # <<>>
    /\ ~resp.out.ok /\ resp.out.err = "NotFound"

\* C2: the listing of every entity kind never contains the empty string and
\* contains no element twice.
C2_ListingsNonEmptyDistinct ==
    \A kind \in Kinds : \A names \in ListsOf(kind) :
        /\ EmptyName(kind) \notin Range(names)
        /\ NoDuplicates(names)

\* C8: the game-id list of every view a request constructs holds only identifiers
\* of games that exist.
C8_GameIdsExist ==
    resp.op \in {"get_or_404", "all"} =>
        \A v \in ViewsOf(resp) : \A id \in Range(v.game_ids) : GameExists(id)

\* A player view is built while the game of one of the handle's rows is gone.
C8_Witness ==
    /\ resp.op = "get_or_404"
    /\ resp.kind = "Player"
    /\ resp.out.ok
    /\ \E r \in Range(players) :
           r.handle = resp.name /\ ~GameExists(r.game_id)
    /\ resp.out.val.game_ids # <<>>

\* C10: all(page, pagesize) of a paged kind does not raise: it returns the views
\* of list()[page*pagesize : page*pagesize + pagesize], none beyond the last page,
\* while count() is the length of the whole listing.
C10_AllNeverRaises ==
    (resp.op = "all" /\ resp.pagesize # <<>> /\ resp.page >= 0) =>
        LET from == resp.page * resp.pagesize[1]
            upto == Min(from + resp.pagesize[1], Len(resp.names))
        IN  /\ resp.out.ok
            /\ Len(resp.out.val) = Max(upto - from, 0)
            /\ \A i \in DOMAIN resp.out.val :
                   resp.out.val[i] = InitOf(resp.kind, resp.names[from + i]).val
            /\ resp.count = Len(resp.names)

(***************************************************************************)
(* SpecFpm: frags per minute over games with and without the normal weapon *)
(* set, played by one or both of two handles.                              *)
(***************************************************************************)
\* A player row that carries statistics: stats is <<timealive, frags, deaths>>.
StatPlayer(game_id, handle, stats) ==
    PlayerRow(game_id, handle, handle, stats[2], stats[3], 0, stats[1], 0)

AceStats == {<<60, 5, 0>>, <<120, 0, 2>>, <<0, 3, 0>>}

BobStats == <<30, 1, 1>>

WeaponRulesets == {[mode |-> "dm", muts |-> {}], [mode |-> "dm", muts |-> {"insta"}]}

\* All games, a window of two, and a window as large as the run's games.
Windows == {0, 2, MaxStatGames}

NextFpm ==
    \/ /\ nextId <= MaxStatGames
       /\ \E rs \in WeaponRulesets : InsertGame("abyss", rs.mode, rs.muts, 0, 0)
    \/ \E stats \in AceStats : InsertPlayer(StatPlayer(CurrentGame, "ace", stats))
    \/ InsertPlayer(StatPlayer(CurrentGame, "bob", BobStats))
    \/ \E n \in Windows : Stat("fpm", "ace", n)
    \/ Deliver

SpecFpm == Init /\ [][NextFpm]_vars

\* The k greatest elements of a set of integers (all of them when k is larger).
Greatest(S, k) == {x \in S : Cardinality({y \in S : y > x}) < k}

RECURSIVE SumPairs(_)
\* The sum of the second components of a set of pairs.
SumPairs(S) ==
    IF S = {} THEN 0
    ELSE LET x == CHOOSE y \in S : TRUE IN x[2] + SumPairs(S \ {x})

\* The existing games the handle has a row in.
GamesPlayed(handle) ==
    {r.game_id : r \in {x \in Range(players) : x.handle = handle /\ GameExists(x.game_id)}}

\* The handle's n most recent games; all of them for n = 0.
RecentGames(handle, n) ==
    IF n = 0 THEN GamesPlayed(handle) ELSE Greatest(GamesPlayed(handle), n)

\* The places in game_players of the handle's rows in its n most recent games
\* that were played with the normal weapon set.
CountedRows(handle, n) ==
    {i \in DOMAIN players :
        /\ players[i].handle = handle
        /\ players[i].game_id \in RecentGames(handle, n)
        /\ GameOf(players[i].game_id).muts \cap re_weaponmuts = {}}

\* C4: fpm(n) is (sum of frags) / (max(1, sum of timealive) / 60), both sums over
\* exactly the player's rows in the games that are among the player's n most
\* recent games (all for n = 0) and pass the normal-weapons filter.
C4_FpmFormula ==
    resp.op = "fpm" =>
        LET rows == CountedRows(resp.handle, resp.games_ago)
            frags == SumPairs({<<i, players[i].frags>> : i \in rows})
            time == SumPairs({<<i, players[i].timealive>> : i \in rows})
        IN  /\ resp.out.ok
            /\ resp.out.val[2] > 0
            /\ resp.out.val[1] * Max(1, time) = frags * 60 * resp.out.val[2]

\* The example: three games with timealive 60, 120, 0 and frags 5, 0, 3, next to
\* another player's rows, and fpm(3) = 8/3.
C4_Witness ==
    /\ resp.op = "fpm"
    /\ resp.games_ago = 3
    /\ Len(resp.self.game_ids) = 3
    /\ \E i, j, k \in CountedRows("ace", 3) :
           /\ i < j /\ j < k
           /\ <<players[i].timealive, players[i].frags>> = <<60, 5>>
           /\ <<players[j].timealive, players[j].frags>> = <<120, 0>>
           /\ <<players[k].timealive, players[k].frags>> = <<0, 3>>
    /\ \E r \in Range(players) : r.handle = "bob" /\ r.game_id \in Range(resp.self.game_ids)
    /\ resp.out.ok
    /\ resp.out.val[1] * 3 = 8 * resp.out.val[2]

(***************************************************************************)
(* SpecRatio: the four ratios of one handle over games with and without    *)
(* the normal weapon set, player rows with and without time, frags and     *)
(* deaths, and weapon rows with and without damage.                        *)
(***************************************************************************)
RatioStats == {<<0, 0, 0>>, <<90, 2, 1>>}

\* The counters of a weapon row: the two damage columns, the others 0.
DamageCols(d1, d2) ==
    [c \in Range(Weapon_columns) |->
        IF c = "damage1" THEN d1 ELSE IF c = "damage2" THEN d2 ELSE 0]

Damages == {<<0, 0>>, <<30, 10>>}

NextRatio ==
    \/ /\ RowsInserted < MaxRows
       /\ \E rs \in WeaponRulesets : InsertGame("abyss", rs.mode, rs.muts, 0, 0)
    \/ /\ RowsInserted < MaxRows
       /\ \E stats \in RatioStats : InsertPlayer(StatPlayer(CurrentGame, "ace", stats))
    \/ /\ RowsInserted < MaxRows
       /\ \E d \in Damages :
              InsertWeapon(WeaponRow(CurrentGame, "rifle", "ace", DamageCols(d[1], d[2])))
    \/ \E stat \in Ratios, n \in {0, 1} : Stat(stat, "ace", n)
    \/ Deliver

SpecRatio == Init /\ [][NextRatio]_vars

\* C3: dpm, fpm, kdr and dfr never divide by zero and return a finite value >= 0:
\* the denominator is max(1, sum) over the selected rows, a sum over no row
\* counting as 0.
C3_RatiosFinite ==
    resp.op \in Ratios =>
        LET rows == CountedRows(resp.handle, resp.games_ago)
            time == SumPairs({<<i, players[i].timealive>> : i \in rows})
            frags == SumPairs({<<i, players[i].frags>> : i \in rows})
            deaths == SumPairs({<<i, players[i].deaths>> : i \in rows})
            floor == CASE resp.op \in {"dpm", "fpm"} -> Max(1, time)
                       [] resp.op = "kdr" -> Max(1, deaths)
                       [] resp.op = "dfr" -> Max(1, frags)
        IN  /\ resp.out.ok
            /\ resp.out.val[2] = floor
            /\ resp.out.val[2] >= 1
            /\ resp.out.val[1] >= 0

\* kdr is asked of a player whose counted rows hold no death.
C3_Witness ==
    /\ resp.op = "kdr"
    /\ CountedRows(resp.handle, resp.games_ago) # {}
    /\ \A i \in CountedRows(resp.handle, resp.games_ago) : players[i].deaths = 0
    /\ resp.out.ok
    /\ resp.out.val[2] = 1

(***************************************************************************)
(* SpecWindow: the window of recent games and the map ranking, over games  *)
(* on two maps, two handles, and deleted games.                            *)
(***************************************************************************)
NextWindow ==
    \/ /\ nextId <= MaxStatGames
       /\ \E map \in {"abyss", "bath"} : InsertGame(map, "dm", {}, 0, 0)
    \/ \E handle \in {"ace", "bob"} : InsertPlayer(BarePlayer(CurrentGame, handle))
    \/ \E id \in 1..MaxStatGames : DeleteGame(id)
    \/ \E n \in 0..(MaxStatGames + 1) : Stat("last_games", "ace", n)
    \/ \E n \in 0..(MaxStatGames + 1) : Stat("topmaps", "ace", n)
    \/ Deliver

SpecWindow == Init /\ [][NextWindow]_vars

\* C5: for n >= 0, last_games(n) is the suffix of the view's ascending game-id
\* list, reversed: all the player's game ids for n = 0, the n greatest for
\* 0 < n <= total, all of them for n > total, always in descending order.
C5_LastGamesWindow ==
    resp.op = "last_games" =>
        LET out == resp.out.val
            ids == resp.self.game_ids
        IN  /\ resp.out.ok
            /\ \A i, j \in DOMAIN out : i < j => out[i] > out[j]
            /\ \A i, j \in DOMAIN ids : i < j => ids[i] < ids[j]
            /\ Range(ids) = GamesPlayed(resp.handle)
            /\ Range(out) = RecentGames(resp.handle, resp.games_ago)
            /\ out = Reversed(SubSeq(ids, Len(ids) - Len(out) + 1, Len(ids)))

\* A window of two is asked of a player with three games.
C5_Witness ==
    /\ resp.op = "last_games"
    /\ resp.games_ago = 2
    /\ resp.self.game_ids = <<1, 2, 3>>
    /\ resp.out.val = <<3, 2>>

\* C7: the 'games' counts of topmaps(n) add up to the number of games in
\* last_games(n), and each entry's count is the number of windowed games played
\* on its map.
C7_TopmapsCounts ==
    resp.op = "topmaps" =>
        LET out == resp.out.val
            window == RecentGames(resp.handle, resp.games_ago)
        IN  /\ resp.out.ok
            /\ SumSeq(MapSeq(out, LAMBDA e : e.games))
                   = Len(Player_last_games(resp.self, resp.games_ago))
            /\ Len(Player_last_games(resp.self, resp.games_ago)) = Cardinality(window)
            /\ \A i \in DOMAIN out :
                   out[i].games
                       = Cardinality({id \in window : GameOf(id).map = out[i].name})

\* The two most recent of three games are ranked, the oldest on another map.
C7_Witness ==
    /\ resp.op = "topmaps"
    /\ resp.games_ago = 2
    /\ Len(resp.self.game_ids) = 3
    /\ GameOf(resp.self.game_ids[1]).map = "bath"
    /\ resp.out.val = <<[name |-> "abyss", games |-> 2]>>

(***************************************************************************)
(* SpecRaces: the race ranking of a map over timed races with and without  *)
(* freestyle and endurance, another mode, another map, and player rows     *)
(* with scores 0, 10 and 20.                                               *)
(***************************************************************************)
RaceRulesets ==
    {[mode |-> "race", muts |-> {"timed"}],
     [mode |-> "race", muts |-> {"timed", "endurance"}],
     [mode |-> "race", muts |-> {"timed", "freestyle"}],
     [mode |-> "dm", muts |-> {}]}

\* The games of the run: every ruleset on the map that is ranked, and a timed
\* race on another map.
RaceGames ==
    {[map |-> "abyss", rs |-> rs] : rs \in RaceRulesets}
        \cup {[map |-> "bath", rs |-> [mode |-> "race", muts |-> {"timed"}]]}

Scores == {0, 10, 20}

\* A player row of a race: the display name is told apart by the score.
RacePlayer(game_id, handle, score) ==
    PlayerRow(game_id, handle, <<handle, score>>, 0, 0, score, 0, 0)

NextRaces ==
    \/ /\ RowsInserted < MaxRows
       /\ \E g \in RaceGames : InsertGame(g.map, g.rs.mode, g.rs.muts, 0, nextId)
    \/ /\ RowsInserted < MaxRows
       /\ \E handle \in {"ace", "bob"}, score \in Scores :
              InsertPlayer(RacePlayer(CurrentGame, handle, score))
    \/ \E endurance \in BOOLEAN : TopRaces("abyss", endurance)
    \/ Deliver

SpecRaces == Init /\ [][NextRaces]_vars

\* The player rows that count for the ranking of a map: rows of the map's games
\* that are mode race, mutator timed, not freestyle (and endurance when asked
\* for), with a score above 0.
RaceRecords(map, endurance) ==
    {r \in Range(players) :
        /\ GameExists(r.game_id)
        /\ GameOf(r.game_id).map = map
        /\ GameOf(r.game_id).mode = "race"
        /\ "timed" \in GameOf(r.game_id).muts
        /\ "freestyle" \notin GameOf(r.game_id).muts
        /\ endurance => "endurance" \in GameOf(r.game_id).muts
        /\ r.score > 0}

\* C6: topraces returns at most one row per handle; every row has score > 0, and
\* its score, game id, name and time are those of a record of the handle with the
\* handle's minimum score among the map's qualifying records.
C6_TopracesBestPerHandle ==
    resp.op = "topraces" =>
        LET out == resp.out.val
            records == RaceRecords(resp.name, resp.endurance)
        IN  /\ \A i, j \in DOMAIN out : i # j => out[i].handle # out[j].handle
            /\ \A i \in DOMAIN out :
                   /\ out[i].score > 0
                   /\ \E r \in records :
                          /\ r.handle = out[i].handle
                          /\ r.score = out[i].score
                          /\ r.game_id = out[i].game_id
                          /\ r.name = out[i].name
                          /\ GameOf(r.game_id).time = out[i].when
                   /\ \A r \in records :
                          r.handle = out[i].handle => out[i].score <= r.score

\* A handle has qualifying scores 10 and 20 on the map, and only its score-10 row
\* is returned.
C6_Witness ==
    /\ resp.op = "topraces"
    /\ \E r, q \in RaceRecords(resp.name, resp.endurance) :
           r.handle = "ace" /\ q.handle = "ace" /\ r.score = 10 /\ q.score = 20
    /\ \E i \in DOMAIN resp.out.val :
           resp.out.val[i].handle = "ace" /\ resp.out.val[i].score = 10
    /\ \A i \in DOMAIN resp.out.val :
           resp.out.val[i].handle = "ace" => resp.out.val[i].score = 10

(***************************************************************************)
(* SpecSums: weapon summaries and map views over games with and without    *)
(* player rows and weapon rows, and deleted games.                         *)
(***************************************************************************)
\* The counters of a weapon row, all equal.
UniformCols(k) == [c \in Range(Weapon_columns) |-> k]

NextSums ==
    \/ /\ RowsInserted < MaxRows
       /\ \E timeplayed \in {0, 300} : InsertGame("abyss", "dm", {}, timeplayed, 0)
    \/ /\ RowsInserted < MaxRows
       /\ \E timeactive \in {0, 250} :
              InsertPlayer(PlayerRow(CurrentGame, "ace", "ace", 0, 0, 0, 0, timeactive))
    \/ /\ RowsInserted < MaxRows
       /\ \E k \in {0, 7} :
              InsertWeapon(WeaponRow(CurrentGame, "rifle", "ace", UniformCols(k)))
    \/ \E id \in 1..MaxRows : DeleteGame(id)
    \/ \E scope \in WeaponScopes, weapon \in Range(re_weaponlist) :
           WeaponSummary(scope, weapon, "ace", 1, <<1>>)
    \/ GetOr404("Map", "abyss")
    \/ Deliver

SpecSums == Init /\ [][NextSums]_vars

\* A weapon summary over no matching row has each of its fourteen counters 0.
WeaponEmptySumsZero ==
    (/\ resp.op = "weapon"
     /\ WeaponScopeRows(resp.scope, resp.weapon, resp.player, resp.game, resp.ids) = {})
        => \A c \in Range(Weapon_columns) : resp.out.val.attrs[c] = <<0>>

\* A map view's summed time played and summed player active time are never
\* null, and 0 when no row contributes.
MapSumsNeverNull ==
    (resp.op = "get_or_404" /\ resp.kind = "Map" /\ resp.out.ok) =>
        LET self == resp.out.val
        IN  /\ self.gametime # <<>>
            /\ self.playertime # <<>>
            /\ (\A r \in Range(players) : r.game_id \notin Range(self.game_ids))
                   => self.playertime = <<0>>

\* C9: every summed value exposed over an empty result set is 0 and never null:
\* the fourteen counters of a weapon summary over no matching row, and a map
\* view's summed time played and summed player active time.
C9_EmptySumsAreZero == WeaponEmptySumsZero /\ MapSumsNeverNull

(***************************************************************************)
(* Counting and resolving, checked under Spec.                             *)
(***************************************************************************)
\* C11: in every database state and for every entity kind, count() is the length
\* of what list() returns on the same state; for Map this holds for race = False
\* and for race = True.
C11_CountIsLenOfList ==
    /\ \A kind \in Kinds : \A names \in ListsOf(kind) : CountOf(kind) = Len(names)
    /\ \A race \in BOOLEAN :
           \A names \in Map_map_list(race) : Map_count(race) = Len(names)

\* A handle has rows in two games and two games share a map, so that the groups
\* counted are fewer than the rows selected; a request has counted the players.
C11_Witness ==
    /\ resp.op = "all"
    /\ resp.kind = "Player"
    /\ resp.count = 1
    /\ Len(SelectSeq(players, LAMBDA r : r.handle # "")) = 2
    /\ Len(games) = 2
    /\ Map_count(FALSE) = 1

\* C13: get_or_404(name) of a listed name and all() build their views: they never
\* end in an error, whatever rows were inserted and whatever games were deleted.
C13_ListedNamesResolve ==
    /\ (resp.op = "get_or_404" /\ resp.name \in Range(resp.names)) => resp.out.ok
    /\ resp.op = "all" => resp.out.ok
    /\ Mode_all.ok
    /\ Mutator_all.ok

(***************************************************************************)
(* SpecPaginate: pages of maps over games of two maps, timed races and     *)
(* plain deathmatches.                                                     *)
(***************************************************************************)
PagedMaps == {"abyss", "bath"}

PerPages == {1, 2}

\* Map.paginate(page, per_page, race); what map_list(race) gives on the same
\* tables is kept beside the answer.
Paginate(page, per_page, race) ==
    /\ resp = NoResp
    /\ \E names \in Map_map_list(race) :
           resp' = [op |-> "paginate", page |-> page, per_page |-> per_page,
                    race |-> race, names |-> names,
                    out |-> Map_paginate(names, page, per_page, race)]
    /\ UNCHANGED <<games, players, servers, weapons, nextId>>

NextPaginate ==
    \/ /\ RowsInserted < MaxRows
       /\ \E map \in PagedMaps, rs \in Rulesets :
              InsertGame(map, rs.mode, rs.muts, 0, 0)
    \/ \E id \in 1..MaxRows : DeleteGame(id)
    \/ \E page \in {0, 1}, per_page \in PerPages, race \in BOOLEAN :
           Paginate(page, per_page, race)
    \/ Deliver

SpecPaginate == Init /\ [][NextPaginate]_vars

\* C12: for both values of the race flag, the total Map.paginate(page, per_page,
\* race) reports is the length of the listing it pages, len(Map.map_list(race)).
C12_PaginateTotal ==
    resp.op = "paginate" =>
        /\ resp.out.ok
        /\ resp.out.val.total = Len(resp.names)

====
